---- MODULE Spec2Model ----
(***************************************************************************)
(* Safety and action-tracking core of the LinkedIn copilot:                *)
(*   - RateLimiter        (src/safety/rate_limiter.py)                     *)
(*   - ActionTracker      (src/safety/action_tracker.py)                   *)
(*   - the authorization flow of LinkedInCopilot.send_recruiter_message    *)
(*     and LinkedInCopilot.apply_to_job (src/main.py)                      *)
(* One worker drives the flow; time is a discrete clock, DAY ticks making  *)
(* up the 24 hours of the rolling window.                                  *)
(***************************************************************************)
EXTENDS Integers, Sequences, FiniteSets

\* ---------------------------------------------------------------- bounds
MaxTime == 4            \* the clock runs from 0 to MaxTime
DAY == 2                \* ticks in 24 hours
MaxActionsCfg == 2      \* max_actions_per_day is drawn from 1..MaxActionsCfg
MaxDelayCfg == 1        \* min_delay_between_actions is drawn from 0..MaxDelayCfg
MaxLog == 3             \* rows the action_log table grows to
RecentLimit == 2        \* the LIMIT of the recent_actions query (50), scaled

NoTime == 0 - 1         \* last_action_time = None

RecruiterUrls == {"u1", "u2"}
JobUrls == {"j1"}
Urls == RecruiterUrls \cup JobUrls
Names == {"n1", "n2"}
Titles == {"t1", "Unknown"}
\* what the discovery step hands to the flow: the name (title) scraped for a URL
NameOf == [u \in Urls |-> IF u = "u1" THEN "n1" ELSE IF u = "u2" THEN "n2" ELSE "t1"]
\* the targets of the two outreach operations
Targets == {<<"send_message", u>> : u \in RecruiterUrls} \cup
           {<<"apply_job", u>> : u \in JobUrls}
\* the configurations the model is run with
Configs ==
    {[max_actions_per_day |-> MaxActionsCfg, min_delay |-> MaxDelayCfg,
      max_delay |-> MaxDelayCfg + 1, human_approval_required |-> TRUE],
     [max_actions_per_day |-> 1, min_delay |-> 0,
      max_delay |-> 1, human_approval_required |-> FALSE]}
Statuses == {"pending", "submitted"}
SendOps == {"send_message", "apply_job"}
DiscoverOps == {"discover_recruiters", "discover_jobs"}

VARIABLES
    now,                  \* datetime.now()
    config,               \* the safety section of config.yaml
    contacted_recruiters, \* table contacted_recruiters (set of rows)
    applied_jobs,         \* table applied_jobs (set of rows)
    action_log,           \* table action_log (rows in insertion order)
    workers,              \* processes that use the ledger file side by side
    db_lock,              \* holder of SQLite's write lock on the file, 0 if free
    daily_actions,        \* RateLimiter.daily_actions
    last_action_time,     \* RateLimiter.last_action_time
    pc,                   \* position of the worker inside the running call
    call,                 \* the running (or last finished) call and what it did
    sent,                 \* per operation and URL: external successes so far
                          \* (0, 1, and 2 for two or more)
    action_times          \* the timestamps record_action() took in the last 24 hours

vars == <<now, config, contacted_recruiters, applied_jobs, action_log, workers,
          db_lock, daily_actions,
          last_action_time, pc, call, sent, action_times>>

\* ------------------------------------------------------------ ActionTracker

\* SELECT COUNT(*) FROM contacted_recruiters WHERE recruiter_url = ?  > 0
is_recruiter_contacted(url) ==
    Cardinality({r \in contacted_recruiters : r.recruiter_url = url}) > 0

\* SELECT COUNT(*) FROM applied_jobs WHERE job_url = ?  > 0
is_job_applied(url) ==
    Cardinality({r \in applied_jobs : r.job_url = url}) > 0

\* INSERT OR IGNORE under the UNIQUE(recruiter_url) constraint: a row whose
\* URL is already present is dropped, any other row is added.
InsertOrIgnoreRecruiter(table, row) ==
    IF \E r \in table : r.recruiter_url = row.recruiter_url
    THEN table
    ELSE table \cup {row}

\* INSERT OR IGNORE under the UNIQUE(job_url) constraint.
InsertOrIgnoreJob(table, row) ==
    IF \E r \in table : r.job_url = row.job_url
    THEN table
    ELSE table \cup {row}

\* ActionTracker.record_recruiter_contact: the table after the call.  stored
\* is FALSE when execute/commit raises; the except branch logs and swallows
\* the error and the table is left as it was.
record_recruiter_contact(url, name, message_sent, stored) ==
    IF stored
    THEN InsertOrIgnoreRecruiter(contacted_recruiters,
            [recruiter_url |-> url, recruiter_name |-> name,
             contacted_at |-> now, message_sent |-> message_sent])
    ELSE contacted_recruiters

\* ActionTracker.record_job_application, same shape.
record_job_application(url, title, status, stored) ==
    IF stored
    THEN InsertOrIgnoreJob(applied_jobs,
            [job_url |-> url, job_title |-> title,
             applied_at |-> now, status |-> status])
    ELSE applied_jobs

\* ActionTracker.log_action: the table after the call, a plain INSERT with no
\* uniqueness constraint.  stored is FALSE when execute/commit raises, which
\* the except branch logs and swallows.  The details column is left out: no
\* query reads it.
log_action(action_type, target_url, target_name, status, stored) ==
    IF stored
    THEN Append(action_log,
            [action_type |-> action_type, target_url |-> target_url,
             target_name |-> target_name, timestamp |-> now, status |-> status])
    ELSE action_log

\* date.strftime('%Y-%m-%d') and SQLite DATE(column): the calendar day a
\* timestamp falls on
DateOf(t) == t \div DAY

\* the columns  SELECT action_type, target_name, status, timestamp
LogRow(e) == <<e.action_type, e.target_name, e.status, e.timestamp>>

\* WHERE DATE(timestamp) = ?  over action_log: the positions that match
DayEntries(d) == {i \in 1..Len(action_log) : DateOf(action_log[i].timestamp) = d}

Orderings_oldest_first(d) ==
    LET n == Cardinality(DayEntries(d))
    IN {f \in [1..n -> DayEntries(d)] :
          /\ \A j, k \in 1..n : j # k => f[j] # f[k]
          /\ \A j, k \in 1..n :
                j < k => action_log[f[j]].timestamp <= action_log[f[k]].timestamp}

\* ORDER BY timestamp DESC: every order of the matching rows the query may
\* return (SQL leaves the order of rows with equal timestamps open)
Orderings(d) ==
    LET n == Cardinality(DayEntries(d))
    IN {f \in [1..n -> DayEntries(d)] :
          /\ \A j, k \in 1..n : j # k => f[j] # f[k]
          /\ \A j, k \in 1..n :
                j < k => action_log[f[j]].timestamp >= action_log[f[k]].timestamp}

\* ActionTracker.get_daily_summary(date): the dictionaries it may return
get_daily_summary(d) ==
    LET n == Cardinality(DayEntries(d))
        kept == IF n < RecentLimit THEN n ELSE RecentLimit
    IN {[date |-> d,
         recruiters_contacted |->
             Cardinality({r \in contacted_recruiters : DateOf(r.contacted_at) = d}),
         jobs_applied |->
             Cardinality({r \in applied_jobs : DateOf(r.applied_at) = d}),
         recent_actions |-> [j \in 1..kept |-> LogRow(action_log[f[j]])]] :
        f \in Orderings(d)}

\* -------------------------------------------------------------- RateLimiter

Prune_never(actions, t) == actions

Prune_calendar_day(actions, t) ==
    SelectSeq(actions, LAMBDA a : a \div DAY = t \div DAY)

Prune_keeps_day_old(actions, t) == SelectSeq(actions, LAMBDA a : t - a <= DAY)

\* the list comprehension  [a for a in daily_actions if (now - a).days < 1]
RECURSIVE Prune(_, _)
Prune(actions, t) ==
    IF actions = << >> THEN << >>
    ELSE IF t - Head(actions) < DAY
         THEN <<Head(actions)>> \o Prune(Tail(actions), t)
         ELSE Prune(Tail(actions), t)

LimitReached_never(actions) == FALSE

LimitReached_above(actions) == Len(actions) > config.max_actions_per_day

\* can_perform_action, the daily limit:  len(daily_actions) >= max
LimitReached(actions) == Len(actions) >= config.max_actions_per_day

WaitTime_none(t) == 0

WaitTime_max(t) ==
    IF last_action_time # NoTime /\ t - last_action_time < config.max_delay
    THEN config.max_delay - (t - last_action_time)
    ELSE 0

\* can_perform_action, the delay check: the seconds handed to time.sleep
\* (0 when it is not called)
WaitTime(t) ==
    IF last_action_time # NoTime /\ t - last_action_time < config.min_delay
    THEN config.min_delay - (t - last_action_time)
    ELSE 0

\* get_daily_stats()['actions_today'] and ['remaining']
ActionsToday == Len(Prune(daily_actions, now))
Remaining == config.max_actions_per_day - ActionsToday

\* RateLimiter.get_daily_stats: the dictionary it returns (last_action is the
\* time of last_action_time, NoTime for None)
get_daily_stats ==
    [actions_today |-> ActionsToday,
     max_actions |-> config.max_actions_per_day,
     remaining |-> Remaining,
     last_action |-> last_action_time]

NoStats == [actions_today |-> 0, max_actions |-> 0, remaining |-> 0,
            last_action |-> NoTime]

\* ------------------------------------------------------------------- state

\* number of timestamps of ts that lie in the 24 hours ending at t
WindowCount(ts, t) ==
    Cardinality({i \in 1..Len(ts) : t - DAY < ts[i] /\ ts[i] <= t})

\* the processes of the concurrent use of the ledger, and one of them before
\* it has called anything
Workers == {1, 2}
NoWorker == [pc |-> "idle", op |-> "send_message", url |-> "u1", saw |-> FALSE,
             outcome |-> "none"]

NoCall ==
    [op |-> "none", url |-> "u1", name |-> "n1",
     was_done |-> FALSE,      \* is_contacted / is_applied when the call began
     retry |-> FALSE,         \* the process before this one died on the same
                              \* target between external success and ledger write
     after_deny |-> "off",    \* yes: an earlier call of this process was
                              \* refused at the ceiling and no record_action()
                              \* came since (no / yes; off: not observed)
     gate |-> "none",         \* can_perform_action: none / pass / deny
     oldest_at_gate |-> NoTime, \* oldest timestamp it found in daily_actions
     t_check |-> NoTime,      \* time at which can_perform_action was entered
     in_window |-> 0,         \* record_action() calls of the last 24h at t_check
     wake |-> NoTime,         \* end of the time.sleep of can_perform_action
     slept |-> FALSE,         \* can_perform_action called time.sleep
     last_at_gate |-> NoTime, \* last_action_time seen by can_perform_action
     len_at_gate |-> 0,       \* len(daily_actions) after its pruning
     t_gate |-> NoTime,       \* time at which it returned
     dedup |-> "none",        \* dedup check: none / pass / duplicate / error
     ext |-> "none",          \* external action: none / started / ok / failed
     require_approval |-> TRUE, \* the caller's require_approval argument
     approved |-> FALSE,      \* Enter was pressed at the approval prompt
     wrote |-> FALSE,         \* the record_* call of this call was made
     stored |-> FALSE,        \* ... and its row reached the table
     recorded |-> FALSE,      \* rate_limiter.record_action() was made
     log |-> "none",          \* status of the entry SafetyLogger.log_action
                              \* appended in this call: none / success / error
     result |-> "none",       \* return value: none / true / false; raised
                              \* and interrupted when an exception leaves it
     stats |-> NoStats,       \* what get_daily_stats returned
     young |-> 0,             \* record_action() calls of the last 24h when
                              \* get_daily_stats was called
     first_false |-> "off"]   \* why the first call that returned False did so
                              \* (none until one has; off: not observed)

Init ==
    /\ now = 0
    /\ config \in Configs
    /\ contacted_recruiters = {}
    /\ applied_jobs = {}
    /\ action_log = << >>
    /\ workers = [w \in Workers |-> NoWorker]
    /\ db_lock = 0
    /\ daily_actions = << >>
    /\ last_action_time = NoTime
    /\ pc = "idle"
    /\ call = NoCall
    /\ sent = [tg \in Targets |-> 0]
    /\ action_times = << >>

\* why a flow call did not go through, as main.py 143-179 decides it
Reason(c) ==
    IF c.gate = "deny" THEN "rate_limited"
    ELSE IF c.dedup = "duplicate" THEN "duplicate"
    ELSE IF c.ext = "failed" THEN "failed"
    ELSE "other"

\* the observation carried from the finished call into the next one
FirstFalse ==
    IF call.first_false = "none" /\ call.op \in SendOps /\ call.result = "false"
    THEN Reason(call)
    ELSE call.first_false

IsDone(op, url) ==
    IF op = "send_message" THEN is_recruiter_contacted(url) ELSE is_job_applied(url)

\* the clock advances by one tick, at the points where the worker can stay
\* that long: between calls, in time.sleep, at the approval prompt and during
\* the browser work of the external action
Tick ==
    /\ now < MaxTime
    /\ pc \in {"idle", "sleep", "external", "approval", "submit"}
    /\ now' = now + 1
    /\ action_times' = SelectSeq(action_times, LAMBDA a : now' - a < DAY)
    /\ UNCHANGED <<workers, db_lock, action_log, config, contacted_recruiters, applied_jobs, daily_actions,
                   last_action_time, pc, call, sent>>

\* a caller enters send_recruiter_message / apply_to_job / discover_*
CallWith(op, url, require_approval) ==
    /\ pc = "idle"
    /\ call' = [NoCall EXCEPT !.op = op, !.url = url, !.name = NameOf[url],
                              !.require_approval = require_approval,
                              !.was_done = (op \in SendOps /\ IsDone(op, url)),
                              !.retry = (/\ call.result = "crashed"
                                         /\ call.op = op /\ call.url = url
                                         /\ call.ext = "ok" /\ ~call.wrote),
                              !.after_deny =
                                  IF call.after_deny = "off" THEN "off"
                                  ELSE IF \/ call.gate = "deny"
                                          \/ call.after_deny = "yes" /\ ~call.recorded
                                       THEN "yes" ELSE "no",
                              !.first_false = FirstFalse]
    /\ pc' = "rate_check"
    /\ UNCHANGED <<workers, db_lock, action_log, now, config, contacted_recruiters, applied_jobs, daily_actions,
                   last_action_time, sent, action_times>>

\* a call that leaves require_approval at its default, as main() makes them
Call(op, url) ==
    CallWith(op, url, TRUE)

\* RateLimiter.can_perform_action up to its return or its time.sleep
CanPerformAction ==
    /\ pc = "rate_check"
    /\ LET pruned == Prune(daily_actions, now)
           wait == WaitTime(now)
           seen == [call EXCEPT !.t_check = now,
                                !.in_window = WindowCount(action_times, now),
                                !.last_at_gate = last_action_time,
                                !.oldest_at_gate =
                                    IF call.after_deny = "off" \/ daily_actions = << >>
                                    THEN NoTime
                                    ELSE Head(daily_actions),
                                !.len_at_gate = Len(pruned)]
       IN /\ daily_actions' = pruned
          /\ IF LimitReached(pruned)
             THEN /\ call' = [seen EXCEPT !.gate = "deny", !.t_gate = now,
                                          !.result = "false"]
                  /\ pc' = "idle"
             ELSE IF wait > 0
             THEN /\ call' = [seen EXCEPT !.slept = TRUE, !.wake = now + wait]
                  /\ pc' = "sleep"
             ELSE /\ call' = [seen EXCEPT !.gate = "pass", !.t_gate = now]
                  /\ pc' = "gate_passed"
    /\ UNCHANGED <<workers, db_lock, action_log, now, config, contacted_recruiters, applied_jobs,
                   last_action_time, sent, action_times>>

\* time.sleep(wait_time) returns, then can_perform_action returns True
WakeUp ==
    /\ pc = "sleep"
    /\ now >= call.wake
    /\ call' = [call EXCEPT !.gate = "pass", !.t_gate = now]
    /\ pc' = "gate_passed"
    /\ UNCHANGED <<workers, db_lock, action_log, now, config, contacted_recruiters, applied_jobs, daily_actions,
                   last_action_time, sent, action_times>>

DedupCheck_open(available) ==
    /\ pc = "gate_passed"
    /\ call.op \in SendOps
    /\ call' = [call EXCEPT !.dedup = "pass"]
    /\ pc' = "external"
    /\ UNCHANGED <<workers, db_lock, action_log, now, config, contacted_recruiters, applied_jobs, daily_actions,
                   last_action_time, sent, action_times>>

DedupCheck_failopen(available) ==
    /\ pc = "gate_passed"
    /\ call.op \in SendOps
    /\ IF available /\ IsDone(call.op, call.url)
       THEN /\ call' = [call EXCEPT !.dedup = "duplicate", !.result = "false"]
            /\ pc' = "idle"
       ELSE /\ call' = [call EXCEPT !.dedup = IF available THEN "pass" ELSE "error"]
            /\ pc' = "external"
    /\ UNCHANGED <<workers, db_lock, action_log, now, config, contacted_recruiters, applied_jobs, daily_actions,
                   last_action_time, sent, action_times>>

\* main.py 147-149 / 237-239: the dedup check of the flow.  available = FALSE
\* is sqlite3.connect / execute raising inside is_recruiter_contacted /
\* is_job_applied (action_tracker.py 65-78, 100-113): neither they nor the
\* flow, whose try starts one line later, catch it, so the exception leaves
\* send_recruiter_message / apply_to_job.
DedupCheck(available) ==
    /\ pc = "gate_passed"
    /\ call.op \in SendOps
    /\ IF ~available
       THEN /\ call' = [call EXCEPT !.dedup = "error", !.result = "raised"]
            /\ pc' = "idle"
       ELSE IF IsDone(call.op, call.url)
       THEN /\ call' = [call EXCEPT !.dedup = "duplicate", !.result = "false"]
            /\ pc' = "idle"
       ELSE /\ call' = [call EXCEPT !.dedup = "pass"]
            /\ pc' = "external"
    /\ UNCHANGED <<workers, db_lock, action_log, now, config, contacted_recruiters, applied_jobs, daily_actions,
                   last_action_time, sent, action_times>>

DiscoverBody_counts ==
    /\ pc = "gate_passed"
    /\ call.op \in DiscoverOps
    /\ call' = [call EXCEPT !.result = "list"]
    /\ daily_actions' = Append(daily_actions, now)
    /\ last_action_time' = now
    /\ action_times' = Append(action_times, now)
    /\ pc' = "idle"
    /\ UNCHANGED <<workers, db_lock, action_log, now, config, contacted_recruiters,
                   applied_jobs, sent>>

\* main.py 105-125 / 189-204: discover_* past the rate check only reads
DiscoverBody ==
    /\ pc = "gate_passed"
    /\ call.op \in DiscoverOps
    /\ call' = [call EXCEPT !.result = "list"]
    /\ pc' = "idle"
    /\ UNCHANGED <<workers, db_lock, action_log, now, config, contacted_recruiters, applied_jobs, daily_actions,
                   last_action_time, sent, action_times>>

ExternalStart_no_pause(found) ==
    /\ pc = "external"
    /\ IF ~found
       THEN /\ call' = [call EXCEPT !.ext = "failed", !.result = "false"]
            /\ pc' = "idle"
       ELSE /\ call' = [call EXCEPT !.ext = "started"]
            /\ pc' = "submit"
    /\ UNCHANGED <<workers, db_lock, action_log, now, config, contacted_recruiters, applied_jobs, daily_actions,
                   last_action_time, sent, action_times>>

ExternalStart_uses_argument(found) ==
    /\ pc = "external"
    /\ IF ~found
       THEN /\ call' = [call EXCEPT !.ext = "failed", !.result = "false"]
            /\ pc' = "idle"
       ELSE /\ call' = [call EXCEPT !.ext = "started"]
            /\ pc' = IF call.require_approval THEN "approval" ELSE "submit"
    /\ UNCHANGED <<workers, db_lock, action_log, now, config, contacted_recruiters, applied_jobs, daily_actions,
                   last_action_time, sent, action_times>>

\* MessageSender.send_message / JobApplicator.apply_to_job up to the approval
\* pause: navigation, CAPTCHA and button lookups; found = FALSE is any of the
\* early "return False" (or a caught exception). The flow method overwrites
\* its require_approval argument with safety.human_approval_required before
\* it passes it on, so the collaborator is handed the configuration value
ExternalStart(found) ==
    /\ pc = "external"
    /\ IF ~found
       THEN /\ call' = [call EXCEPT !.ext = "failed", !.result = "false"]
            /\ pc' = "idle"
       ELSE /\ call' = [call EXCEPT !.ext = "started"]
            /\ pc' = LET require_approval == config.human_approval_required
                     IN  IF require_approval THEN "approval" ELSE "submit"
    /\ UNCHANGED <<workers, db_lock, action_log, now, config, contacted_recruiters, applied_jobs, daily_actions,
                   last_action_time, sent, action_times>>

\* input("Press Enter to send ...") returns a line (entered), or raises
\* EOFError on a closed standard input, which the collaborator's own
\* "except Exception" turns into "return False"
Approve(entered) ==
    /\ pc = "approval"
    /\ IF entered
       THEN /\ call' = [call EXCEPT !.approved = TRUE]
            /\ pc' = "submit"
       ELSE /\ call' = [call EXCEPT !.ext = "failed", !.result = "false"]
            /\ pc' = "idle"
    /\ UNCHANGED <<workers, db_lock, action_log, now, config, contacted_recruiters, applied_jobs, daily_actions,
                   last_action_time, sent, action_times>>

Submit_always_records(success) ==
    /\ pc = "submit"
    /\ sent' = sent
    /\ call' = [call EXCEPT !.ext = IF success THEN "ok" ELSE "failed"]
    /\ pc' = "record"
    /\ UNCHANGED <<workers, db_lock, action_log, now, config, contacted_recruiters, applied_jobs, daily_actions,
                   last_action_time, action_times>>

\* the click on Send / Submit application and the value returned to main.py;
\* main.py 160 / 246: "if success:" leads to the recording steps
Submit(success) ==
    /\ pc = "submit"
    /\ IF success
       THEN /\ sent' = [sent EXCEPT ![<<call.op, call.url>>] =
                                        IF @ = 0 THEN 1 ELSE 2]
            /\ call' = [call EXCEPT !.ext = "ok"]
            /\ pc' = "record"
       ELSE /\ sent' = sent
            /\ call' = [call EXCEPT !.ext = "failed", !.result = "false"]
            /\ pc' = "idle"
    /\ UNCHANGED <<workers, db_lock, action_log, now, config, contacted_recruiters, applied_jobs, daily_actions,
                   last_action_time, action_times>>

RecordLedger_first(stored) ==
    /\ pc = "external"
    /\ ~call.wrote
    /\ contacted_recruiters' =
           IF call.op = "send_message"
           THEN record_recruiter_contact(call.url, call.name, TRUE, stored)
           ELSE contacted_recruiters
    /\ applied_jobs' =
           IF call.op = "apply_job"
           THEN record_job_application(call.url, call.name, "submitted", stored)
           ELSE applied_jobs
    /\ call' = [call EXCEPT !.wrote = TRUE, !.stored = stored]
    /\ UNCHANGED <<workers, db_lock, action_log, now, config, daily_actions, last_action_time, pc, sent,
                   action_times>>

\* main.py 161-166 / 248-256: the ledger write of the flow
RecordLedger(stored) ==
    /\ pc = "record"
    /\ IF call.op = "send_message"
       THEN /\ contacted_recruiters' =
                   record_recruiter_contact(call.url, call.name, TRUE, stored)
            /\ applied_jobs' = applied_jobs
       ELSE /\ applied_jobs' =
                   record_job_application(call.url, call.name, "submitted", stored)
            /\ contacted_recruiters' = contacted_recruiters
    /\ call' = [call EXCEPT !.wrote = TRUE, !.stored = stored]
    /\ pc' = "record_action"
    /\ UNCHANGED <<workers, db_lock, action_log, now, config, daily_actions, last_action_time, sent,
                   action_times>>

RecordAction_keeps_last ==
    /\ pc = "record_action"
    /\ daily_actions' = Append(daily_actions, now)
    /\ action_times' = Append(action_times, now)
    /\ call' = [call EXCEPT !.recorded = TRUE]
    /\ pc' = "log"
    /\ UNCHANGED <<workers, db_lock, action_log, now, config, contacted_recruiters,
                   applied_jobs, sent, last_action_time>>

\* RateLimiter.record_action, main.py 167 / 257.  The delay it draws from
\* _get_random_delay() (uniform over min_delay..max_delay) is only written to
\* the log: no field of the limiter keeps it.
RecordAction ==
    /\ pc = "record_action"
    /\ daily_actions' = Append(daily_actions, now)
    /\ last_action_time' = now
    /\ action_times' = Append(action_times, now)
    /\ call' = [call EXCEPT !.recorded = TRUE]
    /\ pc' = "log"
    /\ UNCHANGED <<workers, db_lock, action_log, now, config, contacted_recruiters, applied_jobs, sent>>

\* main.py 168-179 / 258-269: safety_logger.log_action(..., status='success')
\* and "return success"; when it raises, the except branch calls
\* safety_logger.log_error (logger.py 85-94: an entry with status 'error')
\* and returns False
LogSuccess(logged) ==
    /\ pc = "log"
    /\ call' = [call EXCEPT !.result = IF logged THEN "true" ELSE "false",
                            !.log = IF logged THEN "success" ELSE "error"]
    /\ pc' = "idle"
    /\ UNCHANGED <<workers, db_lock, action_log, now, config, contacted_recruiters, applied_jobs, daily_actions,
                   last_action_time, sent, action_times>>

\* ActionTracker.record_recruiter_contact called on its own
RecordRecruiterContact(url, name, message_sent, stored) ==
    /\ pc = "idle"
    /\ contacted_recruiters' = record_recruiter_contact(url, name, message_sent, stored)
    /\ call' = [NoCall EXCEPT !.op = "record_recruiter_contact", !.url = url,
                              !.was_done = is_recruiter_contacted(url),
                              !.wrote = TRUE, !.stored = stored, !.result = "returned",
                              !.first_false = FirstFalse]
    /\ UNCHANGED <<workers, db_lock, action_log, now, config, applied_jobs, daily_actions, last_action_time,
                   pc, sent, action_times>>

\* ActionTracker.record_job_application called on its own
RecordJobApplication(url, title, status, stored) ==
    /\ pc = "idle"
    /\ applied_jobs' = record_job_application(url, title, status, stored)
    /\ call' = [NoCall EXCEPT !.op = "record_job_application", !.url = url,
                              !.was_done = is_job_applied(url),
                              !.wrote = TRUE, !.stored = stored, !.result = "returned",
                              !.first_false = FirstFalse]
    /\ UNCHANGED <<workers, db_lock, action_log, now, config, contacted_recruiters, daily_actions,
                   last_action_time, pc, sent, action_times>>

Cancel_counts ==
    /\ pc \in {"sleep", "approval"}
    /\ call' = [call EXCEPT !.ext = IF pc = "approval" THEN "raised" ELSE @,
                            !.result = "interrupted"]
    /\ daily_actions' = Append(daily_actions, now)
    /\ last_action_time' = now
    /\ pc' = "stopping"
    /\ UNCHANGED <<workers, db_lock, action_log, now, config, contacted_recruiters, applied_jobs,
                   sent, action_times>>

\* ActionTracker.log_action called on its own
LogAction(action_type, url, status, stored) ==
    /\ pc = "idle"
    /\ Len(action_log) < MaxLog
    /\ action_log' = log_action(action_type, url, NameOf[url], status, stored)
    /\ UNCHANGED <<workers, db_lock, now, config, contacted_recruiters, applied_jobs, daily_actions,
                   last_action_time, pc, call, sent, action_times>>

\* Ctrl+C (KeyboardInterrupt) while the worker is blocked in time.sleep or in
\* the approval input(): it is not an Exception, so no except branch of the
\* flow or of its collaborators catches it and it leaves the call; main()
\* logs "Interrupted by user" and goes on to stop().
Cancel ==
    /\ pc \in {"sleep", "approval"}
    /\ call' = [call EXCEPT !.ext = IF pc = "approval" THEN "raised" ELSE @,
                            !.result = "interrupted"]
    /\ pc' = "stopping"
    /\ UNCHANGED <<workers, db_lock, action_log, now, config, contacted_recruiters, applied_jobs,
                   daily_actions, last_action_time, sent, action_times>>

\* main.py 357-358 and 281-294: stop() writes the daily summary (reads of the
\* ledger and of get_daily_stats) and the process ends.  The next process
\* builds a new RateLimiter / ActionTracker over the same database file.
Stop ==
    /\ pc = "stopping"
    /\ daily_actions' = << >>
    /\ last_action_time' = NoTime
    /\ action_times' = << >>
    /\ pc' = "idle"
    /\ UNCHANGED <<workers, db_lock, action_log, now, config, contacted_recruiters, applied_jobs,
                   call, sent>>

GetDailyStats_resets ==
    /\ pc = "idle"
    /\ call' = [NoCall EXCEPT !.op = "get_daily_stats",
                              !.young = WindowCount(action_times, now),
                              !.stats = get_daily_stats,
                              !.result = "returned",
                              !.first_false = FirstFalse]
    /\ daily_actions' = << >>
    /\ UNCHANGED <<workers, db_lock, action_log, now, config, contacted_recruiters, applied_jobs,
                   last_action_time, pc, sent, action_times>>

\* main.py 271-279: generate_daily_summary calls rate_limiter.get_daily_stats,
\* which builds its filtered list in a local and assigns no field
GetDailyStats ==
    /\ pc = "idle"
    /\ call' = [NoCall EXCEPT !.op = "get_daily_stats",
                              !.young = WindowCount(action_times, now),
                              !.stats = get_daily_stats,
                              !.result = "returned",
                              !.first_false = FirstFalse]
    /\ UNCHANGED <<workers, db_lock, action_log, now, config, contacted_recruiters, applied_jobs,
                   daily_actions, last_action_time, pc, sent, action_times>>

\* the process dies (kill, power loss, unhandled browser crash) after the
\* external action has returned success, before or after the ledger write of
\* main.py 161-166 / 251-256; nothing of the call runs any more and the next
\* process builds a new RateLimiter / ActionTracker over the same file
Crash ==
    /\ pc \in {"record", "record_action"}
    /\ call' = [call EXCEPT !.result = "crashed"]
    /\ daily_actions' = << >>
    /\ last_action_time' = NoTime
    /\ action_times' = << >>
    /\ pc' = "idle"
    /\ UNCHANGED <<workers, db_lock, action_log, now, config, contacted_recruiters,
                   applied_jobs, sent>>

Restart_keeps_limiter ==
    /\ pc = "idle"
    /\ call' = [NoCall EXCEPT !.first_false = FirstFalse]
    /\ UNCHANGED <<workers, db_lock, action_log, now, config, contacted_recruiters,
                   applied_jobs, pc, sent, daily_actions, last_action_time,
                   action_times>>

\* the process ends between two calls and a new one starts:
\* LinkedInCopilot.__init__ builds a new RateLimiter and a new ActionTracker
\* over the same database file
Restart ==
    /\ pc = "idle"
    /\ daily_actions' = << >>
    /\ last_action_time' = NoTime
    /\ action_times' = << >>
    /\ call' = [NoCall EXCEPT !.first_false = FirstFalse]
    /\ UNCHANGED <<workers, db_lock, action_log, now, config, contacted_recruiters, applied_jobs, pc, sent>>

Next ==
    \/ Tick
    \/ \E tg \in Targets : Call(tg[1], tg[2])
    \/ \E op \in DiscoverOps : Call(op, "u1")
    \/ CanPerformAction
    \/ WakeUp
    \/ \E available \in BOOLEAN : DedupCheck(available)
    \/ DiscoverBody
    \/ \E found \in BOOLEAN : ExternalStart(found)
    \/ \E entered \in BOOLEAN : Approve(entered)
    \/ \E success \in BOOLEAN : Submit(success)
    \/ \E stored \in BOOLEAN : RecordLedger(stored)
    \/ RecordAction
    \/ \E logged \in BOOLEAN : LogSuccess(logged)
    \/ GetDailyStats
    \/ Cancel
    \/ Stop
    \/ Crash
    \/ Restart

Spec == Init /\ [][Next]_vars

\* the ledger used on its own: any sequence of record_* calls
InitLedger ==
    /\ Init
    /\ config.min_delay = 0

NextLedger ==
    \/ Tick
    \/ \E u \in RecruiterUrls, n \in Names, m \in BOOLEAN, stored \in BOOLEAN :
          RecordRecruiterContact(u, n, m, stored)
    \/ \E u \in JobUrls, t \in Titles, st \in Statuses, stored \in BOOLEAN :
          RecordJobApplication(u, t, st, stored)
    \/ Restart

SpecLedger == InitLedger /\ [][NextLedger]_vars

\* one process that keeps calling the flow while the clock runs on:
\* time.sleep and the browser steps return, the clock is not stopped by the
\* worker, and the caller of main.py 313-351 goes on to its next call
NextRecovery ==
    \/ \E tg \in Targets : Call(tg[1], tg[2])
    \/ CanPerformAction
    \/ WakeUp
    \/ \E available \in BOOLEAN : DedupCheck(available)
    \/ \E found \in BOOLEAN : ExternalStart(found)
    \/ \E entered \in BOOLEAN : Approve(entered)
    \/ \E success \in BOOLEAN : Submit(success)
    \/ \E stored \in BOOLEAN : RecordLedger(stored)
    \/ RecordAction
    \/ \E logged \in BOOLEAN : LogSuccess(logged)

InitRecovery ==
    /\ now = 0
    /\ config \in Configs
    /\ contacted_recruiters = {}
    /\ applied_jobs = {}
    /\ action_log = << >>
    /\ workers = [w \in Workers |-> NoWorker]
    /\ db_lock = 0
    /\ daily_actions = << >>
    /\ last_action_time = NoTime
    /\ pc = "idle"
    /\ call = [NoCall EXCEPT !.after_deny = "no"]
    /\ sent = [tg \in Targets |-> 0]
    /\ action_times = << >>

SpecRecovery ==
    /\ InitRecovery
    /\ [][Tick \/ NextRecovery]_vars
    /\ SF_vars(Tick)
    /\ WF_vars(NextRecovery)

\* the flow methods called with either value of require_approval: main()
\* passes none, a caller of the class may pass any
NextApproval ==
    \/ Tick
    \/ \E tg \in Targets, require_approval \in BOOLEAN :
           CallWith(tg[1], tg[2], require_approval)
    \/ CanPerformAction
    \/ WakeUp
    \/ \E available \in BOOLEAN : DedupCheck(available)
    \/ \E found \in BOOLEAN : ExternalStart(found)
    \/ \E entered \in BOOLEAN : Approve(entered)
    \/ \E success \in BOOLEAN : Submit(success)
    \/ \E stored \in BOOLEAN : RecordLedger(stored)
    \/ RecordAction
    \/ \E logged \in BOOLEAN : LogSuccess(logged)

SpecApproval ==
    Init /\ [][NextApproval]_vars

\* ---------------------------------------------- two processes, one ledger

\* worker w evaluates is_recruiter_contacted / is_job_applied for a target
WCheck(w, op, url) ==
    /\ workers[w].pc = "idle"
    /\ workers' = [workers EXCEPT ![w] =
                      [NoWorker EXCEPT !.pc = "checked", !.op = op, !.url = url,
                                       !.saw = IsDone(op, url)]]
    /\ UNCHANGED <<now, config, contacted_recruiters, applied_jobs, action_log,
                   db_lock, daily_actions, last_action_time, pc, call, sent,
                   action_times>>

\* record_* of worker w: cursor.execute(INSERT OR IGNORE ...) opens the
\* transaction and takes the write lock of the database file
WExecute(w) ==
    /\ workers[w].pc = "checked"
    /\ db_lock = 0
    /\ db_lock' = w
    /\ workers' = [workers EXCEPT ![w].pc = "executing"]
    /\ UNCHANGED <<now, config, contacted_recruiters, applied_jobs, action_log,
                   daily_actions, last_action_time, pc, call, sent, action_times>>

\* the write lock is held by the other process for longer than the connect
\* timeout: execute raises "database is locked", the except branch of
\* record_* logs it and the call returns
WBusy(w) ==
    /\ workers[w].pc = "checked"
    /\ db_lock \notin {0, w}
    /\ workers' = [workers EXCEPT ![w].pc = "done", ![w].outcome = "failed"]
    /\ UNCHANGED <<now, config, contacted_recruiters, applied_jobs, action_log,
                   db_lock, daily_actions, last_action_time, pc, call, sent,
                   action_times>>

\* conn.commit() of worker w and conn.close(): the row becomes visible unless
\* its URL is already there (ok), or the write fails, is logged and rolled
\* back (~ok); the lock is released
WCommit(w, ok) ==
    /\ workers[w].pc = "executing"
    /\ IF workers[w].op = "send_message"
       THEN /\ contacted_recruiters' =
                   record_recruiter_contact(workers[w].url, NameOf[workers[w].url],
                                            TRUE, ok)
            /\ applied_jobs' = applied_jobs
       ELSE /\ applied_jobs' =
                   record_job_application(workers[w].url, NameOf[workers[w].url],
                                          "submitted", ok)
            /\ contacted_recruiters' = contacted_recruiters
    /\ db_lock' = 0
    /\ workers' = [workers EXCEPT
                      ![w].pc = "done",
                      ![w].outcome = IF ~ok THEN "failed"
                                     ELSE IF IsDone(workers[w].op, workers[w].url)
                                          THEN "ignored" ELSE "stored"]
    /\ UNCHANGED <<now, config, action_log, daily_actions, last_action_time, pc,
                   call, sent, action_times>>

NextConcurrent ==
    \/ Tick
    \/ \E w \in Workers, tg \in Targets : WCheck(w, tg[1], tg[2])
    \/ \E w \in Workers : WExecute(w)
    \/ \E w \in Workers : WBusy(w)
    \/ \E w \in Workers, ok \in BOOLEAN : WCommit(w, ok)

SpecConcurrent == InitLedger /\ [][NextConcurrent]_vars

\* the ledger and its daily summary: record_* and log_action calls over
\* several calendar days
LogStatuses == {"success"}

NextSummary ==
    \/ Tick
    \/ \E st \in LogStatuses, stored \in BOOLEAN :
          LogAction("send_message", "u1", st, stored)
    \/ \E u \in RecruiterUrls : RecordRecruiterContact(u, NameOf[u], TRUE, TRUE)
    \/ \E u \in JobUrls : RecordJobApplication(u, NameOf[u], "submitted", TRUE)

SpecSummary == InitLedger /\ [][NextSummary]_vars

\* the flow with the return values of its calls observed: one process, the
\* configuration without approval pause and without delay
InitOutcome ==
    /\ now = 0
    /\ config \in {c \in Configs : ~c.human_approval_required /\ c.min_delay = 0}
    /\ contacted_recruiters = {}
    /\ applied_jobs = {}
    /\ action_log = << >>
    /\ workers = [w \in Workers |-> NoWorker]
    /\ db_lock = 0
    /\ daily_actions = << >>
    /\ last_action_time = NoTime
    /\ pc = "idle"
    /\ call = [NoCall EXCEPT !.first_false = "none"]
    /\ sent = [tg \in Targets |-> 0]
    /\ action_times = << >>

NextOutcome ==
    \/ Tick
    \/ \E tg \in Targets : Call(tg[1], tg[2])
    \/ CanPerformAction
    \/ \E available \in BOOLEAN : DedupCheck(available)
    \/ \E found \in BOOLEAN : ExternalStart(found)
    \/ \E success \in BOOLEAN : Submit(success)
    \/ \E stored \in BOOLEAN : RecordLedger(stored)
    \/ RecordAction
    \/ \E logged \in BOOLEAN : LogSuccess(logged)

SpecOutcome == InitOutcome /\ [][NextOutcome]_vars

\* ------------------------------------------------------------------ claims

\* the flow has returned to its caller
Returned == pc = "idle" /\ call.result \in {"true", "false"}

\* C1: the external send/submit succeeds at most once for each target, over
\* any sequence of calls and restarts
C1_AtMostOncePerTarget == \A tg \in Targets : sent[tg] <= 1

\* C2: a call for a target that is already in the ledger never invokes the
\* external action and, when it returns, returns False (a skip)
C2_DedupGate ==
    (call.op \in SendOps /\ call.was_done) =>
        /\ call.ext = "none"
        /\ ~call.wrote
        /\ (Returned => call.result = "false")

C2_Witness ==
    /\ call.op \in SendOps /\ call.was_done
    /\ call.dedup = "duplicate" /\ Returned

\* no two rows of a table have the same URL
UniqueRows ==
    /\ \A r1, r2 \in contacted_recruiters :
          r1.recruiter_url = r2.recruiter_url => r1 = r2
    /\ \A r1, r2 \in applied_jobs : r1.job_url = r2.job_url => r1 = r2

\* a step removes or changes no stored row
RowsKept ==
    /\ contacted_recruiters \subseteq contacted_recruiters'
    /\ applied_jobs \subseteq applied_jobs'

\* the URL of the last record_* call made on its own is in its table
ReportedAfterRecord ==
    /\ call.op = "record_recruiter_contact" => is_recruiter_contacted(call.url)
    /\ call.op = "record_job_application" => is_job_applied(call.url)

\* C3: each table holds at most one row per URL, a row once written is never
\* changed or removed by a later insert, and after every record_* call the
\* URL is reported by is_recruiter_contacted / is_job_applied
C3_IdempotentRecords ==
    /\ [](UniqueRows /\ ReportedAfterRecord)
    /\ [][RowsKept]_vars

\* C4: when the external action fails or raises, the call writes no ledger
\* row and the dedup answer for the target is what it was before the call
C4_NoWriteOnFailure ==
    (call.op \in SendOps /\ call.ext \in {"failed", "raised"}) =>
        /\ ~call.wrote
        /\ IsDone(call.op, call.url) = call.was_done
        /\ ~IsDone(call.op, call.url)

C4_Witness ==
    /\ call.op \in SendOps /\ call.ext = "failed" /\ Returned
    /\ sent[<<call.op, call.url>>] = 0

\* C5: the external action starts only after the rate check and the dedup
\* check have passed; the ledger write and record_action() are made only
\* after the external action has returned success
C5_CheckCheckActRecord ==
    call.op \in SendOps =>
        /\ (call.ext # "none" => call.gate = "pass" /\ call.dedup = "pass")
        /\ (call.dedup # "none" => call.gate = "pass")
        /\ (call.wrote \/ call.recorded => call.ext = "ok")
        /\ (call.recorded => call.wrote)

C5_Witness ==
    call.op \in SendOps /\ call.ext = "ok" /\ call.wrote /\ call.recorded

\* C6: when a call in which the external action succeeded returns, the ledger
\* holds a row for the target and the window is one longer than the rate
\* check left it
C6_RecordOnSuccess ==
    (call.op \in SendOps /\ call.ext = "ok" /\ Returned) =>
        /\ IsDone(call.op, call.url)
        /\ Len(daily_actions) = call.len_at_gate + 1

\* C7: with max_actions_per_day record_action() timestamps inside the last
\* 24 hours, can_perform_action returns False and does not sleep
C7_DailyCeiling ==
    call.in_window >= config.max_actions_per_day =>
        /\ call.gate = "deny"
        /\ ~call.slept
        /\ call.t_gate = call.t_check
        /\ pc # "sleep"

C7_Witness ==
    /\ call.gate = "deny"
    /\ call.in_window >= config.max_actions_per_day
    /\ call.last_at_gate # NoTime
    /\ call.t_check - call.last_at_gate < config.min_delay

\* C8: the record_action() timestamps of this process that lie in the 24
\* hours ending now never number more than max_actions_per_day, and
\* get_daily_stats()['remaining'] is never negative
C8_QuotaInvariant ==
    /\ WindowCount(action_times, now) <= config.max_actions_per_day
    /\ Remaining >= 0

C8_Witness ==
    /\ WindowCount(action_times, now) = config.max_actions_per_day
    /\ config.max_actions_per_day > 1
    /\ call.gate = "deny"

\* C9: with min_delay = 0 a call that finds fewer than N actions in the window
\* passes the gate without waiting, a call whose external action succeeded
\* leaves its target contacted / applied, and a call for an unseen target that
\* finds N actions in the window is refused, acts on nothing and leaves no row
C9_RateLimitedSkip ==
    (config.min_delay = 0 /\ call.op \in SendOps) =>
        /\ (call.gate # "none" /\ call.in_window < config.max_actions_per_day
               => call.gate = "pass" /\ ~call.slept)
        /\ (call.ext = "ok" /\ Returned => IsDone(call.op, call.url))
        /\ (call.in_window >= config.max_actions_per_day /\ ~call.was_done
               => /\ call.gate = "deny" /\ call.ext = "none"
                  /\ ~IsDone(call.op, call.url))

\* C10: can_perform_action returns True no earlier than min_delay after the
\* last_action_time set by the previous record_action()
C10_MinimumSpacing ==
    (call.gate = "pass" /\ call.last_at_gate # NoTime) =>
        call.t_gate - call.last_at_gate >= config.min_delay

C10_Witness ==
    /\ call.gate = "pass" /\ call.slept
    /\ call.last_at_gate # NoTime
    /\ call.t_gate - call.last_at_gate = config.min_delay
    /\ call.recorded

\* C11: a record_action() timestamp that is 24 hours old or older is counted
\* neither by the ceiling check of can_perform_action nor in
\* get_daily_stats()['actions_today']; every younger one is counted by both
C11_WindowEviction ==
    /\ ActionsToday = WindowCount(action_times, now)
    /\ ActionsToday =
          Cardinality({i \in 1..Len(daily_actions) : now - daily_actions[i] < DAY})
    /\ (call.t_check # NoTime => call.len_at_gate = call.in_window)

C11_Witness ==
    /\ \E i \in 1..Len(daily_actions) : now - daily_actions[i] = DAY
    /\ ActionsToday >= 1
    /\ Len(daily_actions) > ActionsToday

C13_DedupBeforeRateCheck ==
    (call.op \in SendOps /\ call.was_done) =>
        /\ call.t_check = NoTime
        /\ ~call.slept
        /\ (Returned => call.dedup = "duplicate")

\* C14: when the ledger store cannot be read at the dedup check of the flow,
\* the call ends with the exception: the external action is not started, no
\* ledger row is written and record_action() is not called
C14_DedupCheckFailure ==
    (call.op \in SendOps /\ call.dedup = "error") =>
        /\ call.ext = "none"
        /\ ~call.wrote
        /\ ~call.recorded
        /\ call.result = "raised"
        /\ pc = "idle"
        /\ Len(daily_actions) = call.len_at_gate
        /\ last_action_time = call.last_at_gate

C14_Witness ==
    /\ call.op \in SendOps /\ call.dedup = "error"
    /\ ~call.was_done /\ call.gate = "pass"

\* C15: every call whose external action failed has appended a log entry
\* with status error by the time it returns
C15_ErrorEntryOnFailure ==
    (call.op \in SendOps /\ call.ext = "failed" /\ Returned) =>
        call.log = "error"

\* C16: the value a flow call returns tells its caller why the action was not
\* carried out: two calls that return the same non-success value were stopped
\* for the same one of the reasons duplicate, rate limit, external failure
C16_FailureReasonSurfaced ==
    (/\ call.op \in SendOps /\ Returned /\ call.result = "false"
     /\ call.first_false \in {"rate_limited", "duplicate", "failed"}
     /\ Reason(call) \in {"rate_limited", "duplicate", "failed"}) =>
        Reason(call) = call.first_false

\* C17: when a flow call has returned True for target T, the action_log table
\* of the ledger holds an entry with status success for T written during
\* that call
C17_SuccessEntryInLedgerLog ==
    (call.op \in SendOps /\ call.ext = "ok" /\ Returned /\ call.result = "true") =>
        \E i \in 1..Len(action_log) :
            /\ action_log[i].target_url = call.url
            /\ action_log[i].status = "success"
            /\ action_log[i].timestamp >= call.t_check

\* the state right after a Ctrl+C that arrived in the sleep of
\* can_perform_action
CancelledInWait == pc = "stopping" /\ call.slept /\ call.gate = "none"

\* C18: a cancellation that arrives during the sleep of can_perform_action
\* ends the call: the external action is not started, no ledger row is
\* written, and daily_actions and last_action_time are left as they were
C18_CancelDuringWait ==
    /\ [](CancelledInWait =>
            /\ call.ext = "none" /\ call.dedup = "none"
            /\ ~call.wrote /\ ~call.recorded
            /\ IsDone(call.op, call.url) = call.was_done
            /\ Len(daily_actions) = call.len_at_gate
            /\ last_action_time = call.last_at_gate)
    /\ [][pc = "sleep" /\ pc' \notin {"sleep", "gate_passed"} =>
            /\ pc' = "stopping"
            /\ UNCHANGED <<daily_actions, last_action_time, contacted_recruiters,
                           applied_jobs, action_log, sent>>]_vars

C18_Witness ==
    /\ CancelledInWait
    /\ call.op \in SendOps /\ ~call.was_done
    /\ Len(daily_actions) >= 1

\* C19: with human approval configured, the click on Send / Submit is made
\* only after Enter was pressed at the prompt of the same call; the prompt is
\* left only by that confirmation or with the action given up, and a call
\* cancelled at the prompt sends nothing, writes no ledger row and makes no
\* record_action()
C19_ApprovalCheckpoint ==
    /\ []((config.human_approval_required /\ call.op \in SendOps) =>
            /\ (pc = "submit" \/ call.ext = "ok" => call.approved)
            /\ (call.ext = "raised" =>
                    ~call.approved /\ ~call.wrote /\ ~call.recorded))
    /\ [][pc = "approval" /\ pc' # "approval" =>
            /\ UNCHANGED <<sent, contacted_recruiters, applied_jobs, action_log,
                           daily_actions, last_action_time>>
            /\ \/ pc' = "submit" /\ call'.approved
               \/ pc' = "stopping" /\ call'.ext = "raised"
               \/ pc' = "idle" /\ call'.ext = "failed"]_vars

C19_Witness ==
    /\ config.human_approval_required
    /\ call.op \in SendOps /\ call.ext = "ok" /\ call.approved
    /\ sent[<<call.op, call.url>>] = 1
    /\ Returned

\* the calendar days of the clock, and the timestamps of day d
Dates == 0..(MaxTime \div DAY)
OnDate(t, d) == d * DAY <= t /\ t < (d + 1) * DAY

\* number of positions of sequence q that hold x
Occurrences(q, x) == Cardinality({j \in 1..Len(q) : q[j] = x})

\* C20: for every date, get_daily_summary returns the number of recruiter and
\* job rows whose timestamp falls on that date, and as recent_actions the
\* action_log entries of that date, newest first, cut to the RecentLimit most
\* recent; rows of other dates are not counted
C20_DailySummary ==
    \A d \in Dates : \A s \in get_daily_summary(d) :
        LET ra == s.recent_actions
            day == SelectSeq(action_log, LAMBDA e : OnDate(e.timestamp, d))
            rows == [i \in 1..Len(day) |-> LogRow(day[i])]
        IN /\ s.recruiters_contacted =
                 Cardinality({u \in RecruiterUrls : \E r \in contacted_recruiters :
                                 r.recruiter_url = u /\ OnDate(r.contacted_at, d)})
           /\ s.jobs_applied =
                 Cardinality({u \in JobUrls : \E r \in applied_jobs :
                                 r.job_url = u /\ OnDate(r.applied_at, d)})
           /\ Len(ra) = IF Len(day) < RecentLimit THEN Len(day) ELSE RecentLimit
           /\ \A j \in 1..Len(ra) :
                 /\ OnDate(ra[j][4], d)
                 /\ Occurrences(ra, ra[j]) <= Occurrences(rows, ra[j])
           /\ \A j, k \in 1..Len(ra) : j < k => ra[j][4] >= ra[k][4]
           /\ \A i \in 1..Len(rows) :
                 (Len(ra) > 0 /\ rows[i][4] > ra[Len(ra)][4]) =>
                     Occurrences(ra, rows[i]) = Occurrences(rows, rows[i])

C20_Witness ==
    \E d \in Dates :
        /\ Cardinality(DayEntries(d)) > RecentLimit
        /\ \E i, j \in DayEntries(d) :
              action_log[i].timestamp < action_log[j].timestamp
        /\ \E r \in contacted_recruiters : DateOf(r.contacted_at) = d
        /\ \E r \in contacted_recruiters : DateOf(r.contacted_at) # d
        /\ \E r \in applied_jobs : DateOf(r.applied_at) # d

\* C21: get_daily_stats returns the number of timestamps younger than 24
\* hours, max_actions minus that number and last_action_time, and a call of it
\* changes neither last_action_time nor what any later can_perform_action or
\* get_daily_stats call finds in the window
C21_StatsReadOnly ==
    /\ [](call.op = "get_daily_stats" =>
            /\ call.stats.actions_today = call.young
            /\ call.stats.remaining =
                   config.max_actions_per_day - call.young
            /\ call.stats.max_actions = config.max_actions_per_day
            /\ call.stats.last_action = last_action_time)
    /\ [][(pc = "idle" /\ pc' = "idle" /\ now' = now
            /\ call'.op = "get_daily_stats") =>
              /\ last_action_time' = last_action_time
              /\ \A t \in now..MaxTime :
                    Prune(daily_actions', t) = Prune(daily_actions, t)]_vars

C21_Witness ==
    /\ call.op = "get_daily_stats"
    /\ call.stats.actions_today >= 1
    /\ Len(daily_actions) > call.stats.actions_today
    /\ call.stats.remaining >= 1

\* C22: when two processes have both run record_recruiter_contact (or
\* record_job_application) for the same URL, in any interleaving of their
\* checks and inserts, the table holds exactly one row for that URL
C22_ConcurrentUniqueness ==
    \A w1, w2 \in Workers :
        (/\ w1 # w2
         /\ workers[w1].pc = "done" /\ workers[w2].pc = "done"
         /\ workers[w1].op = workers[w2].op /\ workers[w1].url = workers[w2].url)
        => LET u == workers[w1].url
           IN IF workers[w1].op = "send_message"
              THEN Cardinality({r \in contacted_recruiters : r.recruiter_url = u}) = 1
              ELSE Cardinality({r \in applied_jobs : r.job_url = u}) = 1

\* C23: when the process died after the external action for T succeeded and
\* before the ledger row for T was written, the retry of the flow for T in
\* the next process does not submit to T again
C23_CrashSafety ==
    (call.op \in SendOps /\ call.retry) => call.ext # "ok"

\* the record_action() timestamps of an earlier calendar day that are less
\* than 24 hours old now
CarriedOver ==
    {i \in 1..Len(daily_actions) :
        /\ daily_actions[i] < DateOf(now) * DAY
        /\ now - daily_actions[i] < DAY}

C25_RecoveryFromCeiling ==
    /\ []((/\ call.after_deny = "yes" /\ call.t_check # NoTime
            /\ call.oldest_at_gate # NoTime
            /\ call.t_check - call.oldest_at_gate >= DAY)
           => call.gate # "deny")
    /\ ((call.gate = "deny" /\ call.t_check + DAY <= MaxTime)
           ~> call.gate = "pass")

C25_Witness ==
    /\ call.after_deny = "yes" /\ call.gate = "pass"
    /\ call.oldest_at_gate # NoTime
    /\ call.t_check - call.oldest_at_gate = DAY
    /\ call.len_at_gate = config.max_actions_per_day - 1
    /\ config.max_actions_per_day > 1

\* a process that has made no call yet
FreshProcess ==
    pc = "idle" /\ (call.op = "none" \/ call.result \in {"interrupted", "crashed"})

\* C26: a process that has made no call yet has an empty window and no
\* last_action_time whatever the ledger holds, a can_perform_action that
\* finds them so returns True without sleeping, and no ledger row is lost
\* when a process ends
C26_ProcessScopedRateState ==
    /\ [](FreshProcess => daily_actions = << >> /\ last_action_time = NoTime)
    /\ []((call.t_check # NoTime /\ call.len_at_gate = 0
            /\ call.last_at_gate = NoTime) =>
              /\ call.gate = "pass" /\ ~call.slept
              /\ call.t_gate = call.t_check)
    /\ [][RowsKept]_vars

C26_Witness ==
    /\ call.gate = "pass" /\ call.was_done
    /\ call.len_at_gate = 0 /\ call.last_at_gate = NoTime
    /\ call.op = "send_message"
    /\ config.max_actions_per_day = 1
    /\ \E r \in contacted_recruiters :
          r.recruiter_url = call.url /\ r.contacted_at = call.t_check

\* a flow call that ended as a skip or with a failed external action, or a
\* discover_* call that has returned
EndedWithoutAction ==
    /\ pc = "idle"
    /\ \/ /\ call.op \in SendOps /\ call.result = "false"
          /\ Reason(call) \in {"rate_limited", "duplicate", "failed"}
       \/ call.op \in DiscoverOps /\ call.result \in {"list", "false"}

\* the step is the end of a process (stop(), a kill, or a restart between
\* two calls)
ProcessEnds == pc = "stopping" \/ call'.result = "crashed" \/ call'.op = "none"

\* C27: a call that ends as duplicate skip, rate-limit skip or external
\* failure, and every discover_* call, makes no record_action(): after it
\* last_action_time is what can_perform_action found and daily_actions is the
\* window can_perform_action left after dropping the entries 24 hours old;
\* outside record_action() no step of a process adds to the window
C27_NoQuotaWithoutAction ==
    /\ [](EndedWithoutAction =>
            /\ ~call.recorded
            /\ last_action_time = call.last_at_gate
            /\ Len(daily_actions) = call.len_at_gate
            /\ call.len_at_gate = call.in_window)
    /\ [][pc # "record_action" /\ ~ProcessEnds =>
              /\ last_action_time' = last_action_time
              /\ daily_actions' \in {daily_actions, Prune(daily_actions, now)}]_vars

C27_Witness ==
    /\ EndedWithoutAction
    /\ call.op \in DiscoverOps
    /\ call.len_at_gate >= 1
    /\ call.t_check = call.last_at_gate

\* C28: daily_actions is in non-decreasing time order; last_action_time is
\* None exactly as long as the process has made no record_action(), and from
\* then on it is the time of the most recent record_action() and no earlier
\* than any timestamp of daily_actions
C28_RateLimiterInvariants ==
    /\ [](/\ \A i, j \in 1..Len(daily_actions) :
                i < j => daily_actions[i] <= daily_actions[j]
           /\ \A k \in 1..Len(daily_actions) :
                last_action_time # NoTime /\ daily_actions[k] <= last_action_time
           /\ (FreshProcess => last_action_time = NoTime)
           /\ (pc = "log" =>
                  /\ last_action_time = now
                  /\ daily_actions[Len(daily_actions)] = now))
    /\ [][/\ (pc = "record_action" /\ pc' = "log" =>
                  /\ last_action_time' = now
                  /\ daily_actions' = Append(daily_actions, now))
           /\ (pc # "record_action" /\ ~ProcessEnds =>
                  last_action_time' = last_action_time)]_vars

C28_Witness ==
    /\ Len(daily_actions) >= 2
    /\ daily_actions[1] < daily_actions[2]
    /\ last_action_time = daily_actions[Len(daily_actions)]
    /\ now > last_action_time

\* C29: a flow call returns True exactly when, in that call, the external
\* action succeeded and the ledger write and record_action() were made; a
\* failure of the success logging after them does not turn the result False
C29_ReturnValue ==
    (call.op \in SendOps /\ Returned) =>
        (call.result = "true" <=>
            (call.ext = "ok" /\ call.wrote /\ call.recorded))

\* C30: whether the approval checkpoint is interposed in a flow call depends
\* only on safety.human_approval_required: the external action is submitted
\* after an approval exactly when the configuration value is true, whatever
\* require_approval argument the caller passed
C30_ApprovalFromConfigOnly ==
    /\ [](call.op \in SendOps =>
            /\ (pc = "approval" => config.human_approval_required)
            /\ (pc = "submit" \/ call.ext = "ok" =>
                    (call.approved <=> config.human_approval_required)))
    /\ [][pc = "external" /\ pc' \notin {"external", "idle", "stopping"} =>
              pc' = IF config.human_approval_required THEN "approval"
                    ELSE "submit"]_vars

C30_Witness ==
    /\ call.op \in SendOps /\ call.ext = "ok"
    /\ ~call.require_approval /\ config.human_approval_required
    /\ call.approved

TypeOK ==
    /\ now \in 0..MaxTime
    /\ pc \in {"idle", "rate_check", "sleep", "gate_passed", "external",
               "approval", "submit", "record", "record_action", "log",
               "stopping"}
    /\ last_action_time \in {NoTime} \cup 0..MaxTime

====
